---- MODULE Spec2Model ----
(***************************************************************************)
(* Scrybin: the note store (note_manager.py) and the editor session that   *)
(* drives it (app.py).                                                     *)
(*                                                                         *)
(* A text (title, note content, editor buffer, file contents) is a         *)
(* sequence of one-character strings.  The notes dictionary is a sequence  *)
(* of [title, content] records in insertion order, as a Python dict keeps  *)
(* it.                                                                     *)
(***************************************************************************)
EXTENDS Integers, Sequences, FiniteSets, TLC

VARIABLES
    notes,          \* NoteManager.notes
    file,           \* notes.json: [exists, data]
    op,             \* the last call or handler: its inputs, result and outcome
    phase,          \* "store": bare NoteManager, "init": process starting, "running", "crashed"
    current_note,   \* App.current_note
    notes_list,     \* the items of App.notes_list
    currentRow,     \* App.notes_list.currentRow(), 0-based, -1 when there is none
    text,           \* the buffer of App.text_area
    persisted       \* history: the dictionary the last complete write of the file wrote

vars == <<notes, file, op, phase, current_note, notes_list, currentRow, text, persisted>>

(***************************************************************************)
(* Bounds.                                                                 *)
(***************************************************************************)
\* a caller of the bare store inserts only while it holds at most this many notes
MaxExisting == 2

\* the session creates a note only while the store holds at most this many notes
MaxOpen == 1

(***************************************************************************)
(* Texts.                                                                  *)
(***************************************************************************)
None == <<"None">>

Whitespace == {" ", "\n", "\t", "\r"}

RECURSIVE lstrip(_)
lstrip(s) == IF s # <<>> /\ Head(s) \in Whitespace THEN lstrip(Tail(s)) ELSE s

RECURSIVE rstrip(_)
rstrip(s) ==
    IF s # <<>> /\ s[Len(s)] \in Whitespace
    THEN rstrip(SubSeq(s, 1, Len(s) - 1))
    ELSE s

\* a trim of the left end only
strip_left(s) == lstrip(s)

strip(s) == rstrip(lstrip(s))

Digits == <<"0", "1", "2", "3", "4", "5", "6", "7", "8", "9">>

\* str(count): the decimal digits of a non-negative integer
RECURSIVE str(_)
str(n) ==
    IF n < 10
    THEN <<Digits[n + 1]>>
    ELSE str(n \div 10) \o <<Digits[(n % 10) + 1]>>

(***************************************************************************)
(* The dictionary operations NoteManager uses on self.notes.               *)
(***************************************************************************)
dict_keys(d) == [i \in 1..Len(d) |-> d[i].title]

dict_contains(d, k) == \E i \in 1..Len(d) : d[i].title = k

dict_index(d, k) == CHOOSE i \in 1..Len(d) : d[i].title = k

\* d.get(k, default)
dict_get(d, k, default) ==
    IF dict_contains(d, k) THEN d[dict_index(d, k)].content ELSE default

\* an assignment that moves an existing key to the end
dict_set_move_last(d, k, v) ==
    LET i == IF dict_contains(d, k) THEN dict_index(d, k) ELSE Len(d) + 1
    IN  Append(SubSeq(d, 1, i - 1) \o SubSeq(d, i + 1, Len(d)),
               [title |-> k, content |-> v])

\* d[k] = v: an existing key keeps its position, a new key goes last
dict_set(d, k, v) ==
    IF dict_contains(d, k)
    THEN [d EXCEPT ![dict_index(d, k)].content = v]
    ELSE Append(d, [title |-> k, content |-> v])

\* del d[k], for a key k of d
dict_del(d, k) ==
    LET i == dict_index(d, k)
    IN  SubSeq(d, 1, i - 1) \o SubSeq(d, i + 1, Len(d))

(***************************************************************************)
(* NoteManager, in memory.                                                 *)
(***************************************************************************)
format_title(original_title, count) ==
    original_title \o <<" ", "(">> \o str(count) \o <<")">>

\* a probing loop that numbers the first candidate one too high
RECURSIVE probe_skip(_, _, _, _)
probe_skip(d, original_title, note_title, count) ==
    IF dict_contains(d, note_title)
    THEN probe_skip(d, original_title, format_title(original_title, count + 1), count + 1)
    ELSE [note_title |-> note_title, count |-> count]

\* a probing loop that tries every numbered candidate twice
RECURSIVE probe_slow(_, _, _, _)
probe_slow(d, original_title, note_title, count) ==
    IF dict_contains(d, note_title)
    THEN probe_slow(d, original_title,
                    format_title(original_title, (count + 1) \div 2), count + 1)
    ELSE [note_title |-> note_title, count |-> count]

\* the while loop of add_new_note: the title it ends with and the final count
RECURSIVE probe(_, _, _, _)
probe(d, original_title, note_title, count) ==
    IF dict_contains(d, note_title)
    THEN probe(d, original_title, format_title(original_title, count), count + 1)
    ELSE [note_title |-> note_title, count |-> count]

\* an insertion that does not probe for a free title
add_new_note_overwrite(d, note_title) ==
    [notes |-> dict_set(d, note_title, <<>>), ret |-> note_title, probes |-> 0]

add_new_note(d, note_title) ==
    LET r == probe(d, note_title, note_title, 1)
    IN  [notes |-> dict_set(d, r.note_title, <<>>),
         ret |-> r.note_title,
         probes |-> r.count - 1]

\* a deletion without the membership test: del raises KeyError on an absent key
delete_note_unguarded(d, note_title) ==
    IF dict_contains(d, note_title)
    THEN [notes |-> dict_del(d, note_title), raised |-> FALSE]
    ELSE [notes |-> d, raised |-> TRUE]

\* delete_note: the dictionary afterwards, and whether the call raised
delete_note(d, note_title) ==
    IF dict_contains(d, note_title)
    THEN [notes |-> dict_del(d, note_title), raised |-> FALSE]
    ELSE [notes |-> d, raised |-> FALSE]

\* a lookup whose default is the title asked for
get_note_content_default_title(d, note_title) == dict_get(d, note_title, note_title)

get_note_content(d, note_title) == dict_get(d, note_title, <<>>)

\* an update that ignores a title that is not a key
set_note_content_existing_only(d, note_title, content) ==
    IF dict_contains(d, note_title) THEN dict_set(d, note_title, content) ELSE d

set_note_content(d, note_title, content) == dict_set(d, note_title, content)

get_note_titles(d) == dict_keys(d)

(***************************************************************************)
(* json.dump(self.notes, file, indent=4) and json.load(file), for a        *)
(* dictionary of strings.                                                  *)
(***************************************************************************)
Quote == "\""
Backslash == "\\"
Newline == "\n"

\* an encoder that writes every character as it is
escape_char_raw(c) == <<c>>

\* the escape of one character inside a JSON string
escape_char(c) ==
    IF c = Quote THEN <<Backslash, Quote>>
    ELSE IF c = Backslash THEN <<Backslash, Backslash>>
    ELSE IF c = Newline THEN <<Backslash, "n">>
    ELSE IF c = "\t" THEN <<Backslash, "t">>
    ELSE IF c = "\r" THEN <<Backslash, "r">>
    ELSE <<c>>

RECURSIVE escape(_)
escape(s) == IF s = <<>> THEN <<>> ELSE escape_char(Head(s)) \o escape(Tail(s))

encode_string(s) == <<Quote>> \o escape(s) \o <<Quote>>

Indent == <<" ", " ", " ", " ">>

encode_item(n) ==
    Indent \o encode_string(n.title) \o <<":", " ">> \o encode_string(n.content)

RECURSIVE encode_items(_)
encode_items(d) ==
    IF Len(d) = 1
    THEN encode_item(d[1])
    ELSE encode_item(d[1]) \o <<",", Newline>> \o encode_items(Tail(d))

json_dump(d) ==
    IF d = <<>>
    THEN <<"{", "}">>
    ELSE <<"{", Newline>> \o encode_items(d) \o <<Newline, "}">>

JSONDecodeError == [ok |-> FALSE, val |-> <<>>, end |-> 0]

RECURSIVE skip_ws(_, _)
skip_ws(s, i) ==
    IF i <= Len(s) /\ s[i] \in Whitespace THEN skip_ws(s, i + 1) ELSE i

\* the characters of a JSON string whose opening quote is before position i
RECURSIVE scanstring(_, _, _)
scanstring(s, i, acc) ==
    IF i > Len(s) THEN JSONDecodeError
    ELSE IF s[i] = Quote THEN [ok |-> TRUE, val |-> acc, end |-> i + 1]
    ELSE IF s[i] = Backslash THEN
        IF i + 1 > Len(s) THEN JSONDecodeError
        ELSE IF s[i + 1] \in {Quote, Backslash} THEN scanstring(s, i + 2, Append(acc, s[i + 1]))
        ELSE IF s[i + 1] = "n" THEN scanstring(s, i + 2, Append(acc, Newline))
        ELSE IF s[i + 1] = "t" THEN scanstring(s, i + 2, Append(acc, "\t"))
        ELSE IF s[i + 1] = "r" THEN scanstring(s, i + 2, Append(acc, "\r"))
        ELSE JSONDecodeError
    ELSE IF s[i] \in {Newline, "\t", "\r"} THEN JSONDecodeError
    ELSE scanstring(s, i + 1, Append(acc, s[i]))

\* the pairs of a JSON object from position i, the start of a key, to its "}";
\* a repeated key keeps its first position and its last value, as a dict does.
\* Values other than strings are outside the files modelled here.
RECURSIVE parse_pairs(_, _, _)
parse_pairs(s, i, acc) ==
    IF i > Len(s) \/ s[i] # Quote THEN JSONDecodeError
    ELSE
      LET k == scanstring(s, i + 1, <<>>)
          c == skip_ws(s, k.end)
          v0 == skip_ws(s, c + 1)
          v == scanstring(s, v0 + 1, <<>>)
          e == skip_ws(s, v.end)
          acc2 == dict_set(acc, k.val, v.val)
      IN  IF ~k.ok THEN JSONDecodeError
          ELSE IF c > Len(s) \/ s[c] # ":" THEN JSONDecodeError
          ELSE IF v0 > Len(s) \/ s[v0] # Quote THEN JSONDecodeError
          ELSE IF ~v.ok THEN JSONDecodeError
          ELSE IF e > Len(s) THEN JSONDecodeError
          ELSE IF s[e] = "}" THEN [ok |-> TRUE, val |-> acc2, end |-> e + 1]
          ELSE IF s[e] = "," THEN parse_pairs(s, skip_ws(s, e + 1), acc2)
          ELSE JSONDecodeError

json_load(s) ==
    LET b == skip_ws(s, 1)
        f == skip_ws(s, b + 1)
        r == IF f <= Len(s) /\ s[f] = "}"
             THEN [ok |-> TRUE, val |-> <<>>, end |-> f + 1]
             ELSE parse_pairs(s, f, <<>>)
    IN  IF b > Len(s) \/ s[b] # "{" THEN JSONDecodeError
        ELSE IF ~r.ok THEN JSONDecodeError
        ELSE IF skip_ws(s, r.end) <= Len(s) THEN JSONDecodeError
        ELSE r

(***************************************************************************)
(* NoteManager, on disk.                                                   *)
(***************************************************************************)
NoFile == [exists |-> FALSE, data |-> <<>>]

\* a load that empties the dictionary when there is no file
load_notes_clear_on_missing(d, f) ==
    IF f.exists
    THEN LET r == json_load(f.data)
         IN  IF r.ok
             THEN [notes |-> r.val, raised |-> FALSE]
             ELSE [notes |-> d, raised |-> TRUE]
    ELSE [notes |-> <<>>, raised |-> FALSE]

\* load_notes: the dictionary afterwards, and whether json.load raised
load_notes(d, f) ==
    IF f.exists
    THEN LET r == json_load(f.data)
         IN  IF r.ok
             THEN [notes |-> r.val, raised |-> FALSE]
             ELSE [notes |-> d, raised |-> TRUE]
    ELSE [notes |-> d, raised |-> FALSE]

save_notes_to_file(d) == [exists |-> TRUE, data |-> json_dump(d)]

(***************************************************************************)
(* Inputs.                                                                 *)
(***************************************************************************)
TitleA == <<"a">>
TitleA1 == <<"a", " ", "(", "1", ")">>
TitleA2 == <<"a", " ", "(", "2", ")">>
TitleB == <<"b">>

\* titles a caller of the store passes
StoreTitles == {TitleA, TitleA1, TitleB}

\* contents a caller of the store passes
StoreContents == {<<>>, <<"x", Newline, Quote>>}

\* a file cut short, as a crash during a write leaves it
MalformedFile == [exists |-> TRUE, data |-> <<"{", Newline, " ", Quote, "a">>]

\* the title new_note falls back to
NewNoteTitle == <<"N", "e", "w", " ", "N", "o", "t", "e">>

\* a file written by hand, on one line: {"New Note":"\"x\nx"}
HandFile ==
    [exists |-> TRUE,
     data |-> <<"{">> \o <<Quote>> \o NewNoteTitle \o <<Quote>> \o <<":">>
              \o <<Quote, Backslash, Quote, "x", Backslash, "n", "x", Quote>>
              \o <<"}", Newline>>]

InitFiles == {NoFile, MalformedFile, HandFile}

\* the record of a call: what was asked, what came back
Call(name, title, content, ret, titles, outcome) ==
    [name |-> name, title |-> title, content |-> content,
     ret |-> ret, titles |-> titles, outcome |-> outcome]

NoCall == Call("none", None, <<>>, None, <<>>, "ok")

\* the file is not the product of a complete write of this model
NotPersisted == [valid |-> FALSE, notes |-> <<>>]

sessionVars == <<phase, current_note, notes_list, currentRow, text, persisted>>

(***************************************************************************)
(* The store driven directly through its interface.                        *)
(***************************************************************************)
StoreInit ==
    /\ notes = <<>>
    /\ file \in InitFiles
    /\ op = NoCall
    /\ phase = "store"
    /\ current_note = None
    /\ notes_list = <<>>
    /\ currentRow = -1
    /\ text = <<>>
    /\ persisted = NotPersisted

\* NoteManager()
StoreNew ==
    /\ notes' = <<>>
    /\ op' = Call("__init__", None, <<>>, None, <<>>, "ok")
    /\ UNCHANGED <<file, sessionVars>>

StoreLoad ==
    LET r == load_notes(notes, file)
    IN  /\ notes' = r.notes
        /\ op' = Call("load_notes", None, <<>>, None,
                      IF r.raised THEN <<>> ELSE get_note_titles(r.notes),
                      IF r.raised THEN "raised" ELSE "ok")
        /\ UNCHANGED <<file, sessionVars>>

StoreAddNew(t) ==
    /\ Len(notes) <= MaxExisting
    /\ LET r == add_new_note(notes, t)
       IN  /\ notes' = r.notes
           /\ op' = Call("add_new_note", t, <<>>, r.ret, <<>>, "ok")
    /\ UNCHANGED <<file, sessionVars>>

StoreDelete(t) ==
    LET r == delete_note(notes, t)
    IN  /\ notes' = r.notes
        /\ op' = Call("delete_note", t, <<>>, None, <<>>,
                      IF r.raised THEN "raised" ELSE "ok")
    /\ UNCHANGED <<file, sessionVars>>

StoreGetContent(t) ==
    /\ op' = Call("get_note_content", t, <<>>, get_note_content(notes, t), <<>>, "ok")
    /\ UNCHANGED <<notes, file, sessionVars>>

StoreSetContent(t, c) ==
    /\ dict_contains(notes, t) \/ Len(notes) <= MaxExisting
    /\ notes' = set_note_content(notes, t, c)
    /\ op' = Call("set_note_content", t, c, None, <<>>, "ok")
    /\ UNCHANGED <<file, sessionVars>>

StoreGetTitles ==
    /\ op' = Call("get_note_titles", None, <<>>, None, get_note_titles(notes), "ok")
    /\ UNCHANGED <<notes, file, sessionVars>>

StoreNext ==
    \/ StoreNew
    \/ StoreLoad
    \/ \E t \in StoreTitles : StoreAddNew(t)
    \/ \E t \in StoreTitles : StoreDelete(t)
    \/ \E t \in StoreTitles : StoreGetContent(t)
    \/ \E t \in StoreTitles, c \in StoreContents : StoreSetContent(t, c)
    \/ StoreGetTitles

StoreSpec == StoreInit /\ [][StoreNext]_vars

(***************************************************************************)
(* The editor session: App and its handlers.                               *)
(***************************************************************************)
\* what the user types into a title dialog
DialogTexts == {<<" ">>, <<" ">> \o NewNoteTitle \o <<" ">>}

\* what the user leaves in the editor
BufferTexts == {<<" ", Quote, "x", Newline, "x", Newline>>}

\* how the write of save_notes_to_file ends: done, or cut short with an
\* IOError after open(..., "w") has emptied the file
WriteOutcomes == {"ok", "truncated"}

\* if self.current_note:
Truthy(t) == t # None /\ t # <<>>

\* the file after save_notes_to_file(d) ends as w
write(d, w) ==
    IF w = "ok" THEN save_notes_to_file(d) ELSE [exists |-> TRUE, data |-> <<>>]

written(d, w) ==
    IF w = "ok" THEN [valid |-> TRUE, notes |-> d] ELSE NotPersisted

\* QListWidget.takeItem(row)
takeItem(items, row) ==
    IF row < 0 \/ row >= Len(items)
    THEN items
    ELSE SubSeq(items, 1, row) \o SubSeq(items, row + 2, Len(items))

\* the current row after takeItem(row): the item below moves up into it,
\* else the one above, else none
rowAfterTake(items, row) ==
    IF row < 0 \/ row >= Len(items) THEN row
    ELSE IF row + 1 < Len(items) THEN row
    ELSE row - 1

Init ==
    /\ notes = <<>>
    /\ file \in InitFiles
    /\ op = NoCall
    /\ phase = "init"
    /\ current_note = None
    /\ notes_list = <<>>
    /\ currentRow = -1
    /\ text = <<>>
    /\ persisted = NotPersisted

\* App.__init__ with a new NoteManager, ending in App.load_notes
Startup ==
    /\ phase = "init"
    /\ LET r == load_notes(<<>>, file)
           titles == get_note_titles(r.notes)
       IN  /\ notes' = r.notes
           /\ IF r.raised
              THEN /\ phase' = "crashed"
                   /\ op' = Call("__init__", None, <<>>, None, <<>>, "raised")
                   /\ UNCHANGED <<current_note, notes_list, currentRow, text>>
              ELSE /\ phase' = "running"
                   /\ op' = Call("__init__", None, <<>>, None, <<>>, "ok")
                   /\ notes_list' = titles
                   /\ IF Len(titles) > 0
                      THEN /\ currentRow' = Len(titles) - 1
                           /\ current_note' = titles[Len(titles)]
                           /\ text' = get_note_content(r.notes, titles[Len(titles)])
                      ELSE UNCHANGED <<current_note, currentRow, text>>
    /\ UNCHANGED <<file, persisted>>

\* quit_app: the process ends; the next one starts from the file alone
Quit ==
    /\ phase = "running"
    /\ phase' = "init"
    /\ notes' = <<>>
    /\ current_note' = None
    /\ notes_list' = <<>>
    /\ currentRow' = -1
    /\ text' = <<>>
    /\ op' = Call("quit_app", None, <<>>, None, <<>>, "ok")
    /\ UNCHANGED <<file, persisted>>

\* the user types in the editor
EditText(t) ==
    /\ phase = "running"
    /\ UNCHANGED phase
    /\ text # t
    /\ text' = t
    /\ op' = Call("edit", None, <<>>, None, <<>>, "ok")
    /\ UNCHANGED <<notes, file, current_note, notes_list, currentRow, persisted>>

\* the user moves the list's current row with the keyboard
MoveRow(i) ==
    /\ phase = "running"
    /\ UNCHANGED phase
    /\ i \in 0..(Len(notes_list) - 1)
    /\ i # currentRow
    /\ currentRow' = i
    /\ op' = Call("move_row", None, <<>>, None, <<>>, "ok")
    /\ UNCHANGED <<notes, file, current_note, notes_list, text, persisted>>

\* a new_note that also writes the file
new_note_autosave(ok, raw) ==
    /\ phase = "running"
    /\ UNCHANGED phase
    /\ Len(notes) <= MaxOpen
    /\ LET note_title == IF ok /\ strip(raw) # <<>> THEN strip(raw) ELSE NewNoteTitle
           r == add_new_note(notes, note_title)
       IN  /\ notes' = r.notes
           /\ notes_list' = Append(notes_list, r.ret)
           /\ currentRow' = Len(notes_list)
           /\ current_note' = r.ret
           /\ text' = get_note_content(r.notes, r.ret)
           /\ file' = write(r.notes, "ok")
           /\ persisted' = written(r.notes, "ok")
           /\ op' = Call("new_note", None, <<>>, None, <<>>, "ok")

new_note(ok, raw) ==
    /\ phase = "running"
    /\ UNCHANGED phase
    /\ Len(notes) <= MaxOpen
    /\ LET note_title == IF ok /\ strip(raw) # <<>> THEN strip(raw) ELSE NewNoteTitle
           r == add_new_note(notes, note_title)
       IN  /\ notes' = r.notes
           /\ notes_list' = Append(notes_list, r.ret)
           /\ currentRow' = Len(notes_list)
           /\ current_note' = r.ret
           /\ text' = get_note_content(r.notes, r.ret)
           /\ op' = Call("new_note", None, <<>>, None, <<>>, "ok")
    /\ UNCHANGED <<file, persisted>>

\* a selection that first stores the buffer of the note it leaves
load_selected_note_autosave(i) ==
    /\ phase = "running"
    /\ UNCHANGED phase
    /\ i \in 0..(Len(notes_list) - 1)
    /\ currentRow' = i
    /\ current_note' = notes_list[i + 1]
    /\ notes' = IF Truthy(current_note)
                THEN set_note_content(notes, current_note, strip(text))
                ELSE notes
    /\ text' = get_note_content(notes', notes_list[i + 1])
    /\ op' = Call("load_selected_note", None, <<>>, None, <<>>, "ok")
    /\ UNCHANGED <<file, notes_list, persisted>>

\* itemClicked on row i
load_selected_note(i) ==
    /\ phase = "running"
    /\ UNCHANGED phase
    /\ i \in 0..(Len(notes_list) - 1)
    /\ currentRow' = i
    /\ current_note' = notes_list[i + 1]
    /\ text' = get_note_content(notes, notes_list[i + 1])
    /\ op' = Call("load_selected_note", None, <<>>, None, <<>>, "ok")
    /\ UNCHANGED <<notes, file, notes_list, persisted>>

\* keyPressEvent, Return or Enter
KeyReturn ==
    /\ phase = "running"
    /\ UNCHANGED phase
    /\ currentRow \in 0..(Len(notes_list) - 1)
    /\ LET selected_note == notes_list[currentRow + 1]
       IN  /\ IF selected_note = current_note
              THEN UNCHANGED <<current_note, text>>
              ELSE /\ current_note' = selected_note
                   /\ text' = get_note_content(notes, selected_note)
           /\ op' = Call("key_return", None, <<>>, None, <<>>, "ok")
    /\ UNCHANGED <<notes, file, notes_list, currentRow, persisted>>

\* a save that writes the file before it updates the store
save_note_persist_first(w) ==
    /\ phase = "running"
    /\ UNCHANGED phase
    /\ IF Truthy(current_note)
       THEN LET content == strip(text)
                d == set_note_content(notes, current_note, content)
            IN  /\ notes' = d
                /\ file' = write(notes, w)
                /\ persisted' = written(notes, w)
                /\ op' = Call("save_note", None, <<>>, None, <<>>,
                              IF w = "ok" THEN "ok" ELSE "raised")
       ELSE /\ w = "ok"
            /\ op' = Call("save_note", None, <<>>, None, <<>>, "rejected")
            /\ UNCHANGED <<notes, file, persisted>>
    /\ UNCHANGED <<current_note, notes_list, currentRow, text>>

save_note(w) ==
    /\ phase = "running"
    /\ UNCHANGED phase
    /\ IF Truthy(current_note)
       THEN LET content == strip(text)
                d == set_note_content(notes, current_note, content)
            IN  /\ notes' = d
                /\ file' = write(d, w)
                /\ persisted' = written(d, w)
                /\ op' = Call("save_note", None, <<>>, None, <<>>,
                              IF w = "ok" THEN "ok" ELSE "raised")
       ELSE /\ w = "ok"
            /\ op' = Call("save_note", None, <<>>, None, <<>>, "rejected")
            /\ UNCHANGED <<notes, file, persisted>>
    /\ UNCHANGED <<current_note, notes_list, currentRow, text>>

\* a Save As that does not test the title for emptiness
save_note_as_any_title(ok, raw, w) ==
    /\ phase = "running"
    /\ UNCHANGED phase
    /\ IF Truthy(current_note) /\ ok
       THEN /\ Len(notes) <= MaxOpen
            /\ LET note_title == strip(raw)
                   content == strip(text)
                   r == add_new_note(notes, note_title)
                   d == set_note_content(r.notes, note_title, content)
               IN  /\ notes' = d
                   /\ notes_list' = Append(notes_list, note_title)
                   /\ currentRow' = Len(notes_list)
                   /\ current_note' = note_title
                   /\ file' = write(d, w)
                   /\ persisted' = written(d, w)
                   /\ op' = Call("save_note_as", note_title, <<>>, None, <<>>,
                                 IF w = "ok" THEN "ok" ELSE "raised")
       ELSE /\ w = "ok"
            /\ op' = Call("save_note_as", None, <<>>, None, <<>>, "rejected")
            /\ UNCHANGED <<notes, file, persisted, notes_list, currentRow, current_note>>
    /\ UNCHANGED text

save_note_as(ok, raw, w) ==
    /\ phase = "running"
    /\ UNCHANGED phase
    /\ IF Truthy(current_note) /\ ok /\ strip(raw) # <<>>
       THEN /\ Len(notes) <= MaxOpen
            /\ LET note_title == strip(raw)
                   content == strip(text)
                   r == add_new_note(notes, note_title)
                   d == set_note_content(r.notes, note_title, content)
               IN  /\ notes' = d
                   /\ notes_list' = Append(notes_list, note_title)
                   /\ currentRow' = Len(notes_list)
                   /\ current_note' = note_title
                   /\ file' = write(d, w)
                   /\ persisted' = written(d, w)
                   /\ op' = Call("save_note_as", note_title, <<>>, None, <<>>,
                                 IF w = "ok" THEN "ok" ELSE "raised")
       ELSE /\ w = "ok"
            /\ op' = Call("save_note_as", None, <<>>, None, <<>>, "rejected")
            /\ UNCHANGED <<notes, file, persisted, notes_list, currentRow, current_note>>
    /\ UNCHANGED text

\* a delete that catches the error of the write and goes on
app_delete_note_swallow(confirm, w) ==
    /\ phase = "running"
    /\ UNCHANGED phase
    /\ IF Truthy(current_note) /\ confirm
       THEN LET r == delete_note(notes, current_note)
            IN  /\ notes' = r.notes
                /\ notes_list' = takeItem(notes_list, currentRow)
                /\ currentRow' = rowAfterTake(notes_list, currentRow)
                /\ text' = <<>>
                /\ current_note' = None
                /\ file' = write(r.notes, w)
                /\ persisted' = written(r.notes, w)
                /\ op' = Call("delete_note", None, <<>>, None, <<>>, "ok")
       ELSE /\ w = "ok"
            /\ op' = Call("delete_note", None, <<>>, None, <<>>, "rejected")
            /\ UNCHANGED <<notes, file, persisted, notes_list, currentRow, current_note, text>>

\* App.delete_note
app_delete_note(confirm, w) ==
    /\ phase = "running"
    /\ UNCHANGED phase
    /\ IF Truthy(current_note) /\ confirm
       THEN LET r == delete_note(notes, current_note)
            IN  /\ notes' = r.notes
                /\ notes_list' = takeItem(notes_list, currentRow)
                /\ currentRow' = rowAfterTake(notes_list, currentRow)
                /\ text' = <<>>
                /\ current_note' = None
                /\ file' = write(r.notes, w)
                /\ persisted' = written(r.notes, w)
                /\ op' = Call("delete_note", None, <<>>, None, <<>>,
                              IF w = "ok" THEN "ok" ELSE "raised")
       ELSE /\ w = "ok"
            /\ op' = Call("delete_note", None, <<>>, None, <<>>, "rejected")
            /\ UNCHANGED <<notes, file, persisted, notes_list, currentRow, current_note, text>>

Next ==
    \/ Startup
    \/ Quit
    \/ \E t \in BufferTexts : EditText(t)
    \/ \E i \in 0..MaxOpen : MoveRow(i)
    \/ \E ok \in BOOLEAN, raw \in DialogTexts : new_note(ok, raw)
    \/ \E i \in 0..MaxOpen : load_selected_note(i)
    \/ KeyReturn
    \/ \E w \in WriteOutcomes : save_note(w)
    \/ \E ok \in BOOLEAN, raw \in DialogTexts, w \in WriteOutcomes : save_note_as(ok, raw, w)
    \/ \E confirm \in BOOLEAN, w \in WriteOutcomes : app_delete_note(confirm, w)

Spec == Init /\ [][Next]_vars

(***************************************************************************)
(* Properties of the store.                                                *)
(***************************************************************************)
Keys(d) == {d[i].title : i \in 1..Len(d)}

\* every title other than t is a key of both or of neither, with one content
SameExcept(d, e, t) ==
    \A u \in (Keys(d) \cup Keys(e)) \ {t} :
        /\ dict_contains(d, u) <=> dict_contains(e, u)
        /\ dict_get(d, u, None) = dict_get(e, u, None)

\* the title "t (n)", for n below ten
Suffixed(t, n) == t \o <<" ", "(", Digits[n + 1], ")">>

\* C1: add_new_note adds exactly one key that was not a key before, gives it
\* empty content, returns that key, and leaves every existing title and its
\* content as they were.
C1_AddNewNeverOverwrites ==
    [][op'.name = "add_new_note" =>
        /\ ~dict_contains(notes, op'.ret)
        /\ Keys(notes') = Keys(notes) \cup {op'.ret}
        /\ Len(notes') = Len(notes) + 1
        /\ Cardinality(Keys(notes')) = Len(notes')
        /\ dict_get(notes', op'.ret, None) = <<>>
        /\ SameExcept(notes, notes', op'.ret)]_vars

\* an insertion that collided, next to a note that holds text
C1_Witness ==
    /\ op.name = "add_new_note"
    /\ op.ret # op.title
    /\ \E i \in 1..Len(notes) : notes[i].title = op.title /\ notes[i].content # <<>>

\* C2: add_new_note returns the requested title when it is free, and otherwise
\* "t (n)" for the smallest n >= 1 whose title is free.
C2_AddNewSmallestFreeSuffix ==
    [][op'.name = "add_new_note" =>
        IF ~dict_contains(notes, op'.title)
        THEN op'.ret = op'.title
        ELSE \E n \in 1..Len(notes) :
                /\ op'.ret = Suffixed(op'.title, n)
                /\ ~dict_contains(notes, Suffixed(op'.title, n))
                /\ \A m \in 1..(n - 1) : dict_contains(notes, Suffixed(op'.title, m))]_vars

\* "a", "a (1)", "a (2)" were added, "a (1)" deleted, and "a" added once more
C2_Witness ==
    /\ op.name = "add_new_note"
    /\ op.title = TitleA
    /\ op.ret = TitleA1
    /\ get_note_titles(notes) = <<TitleA, TitleA2, TitleA1>>

\* C8: set_note_content is an upsert: afterwards the title is a key holding the
\* given content, every other title is as before, and an existing title adds
\* no key.
C8_SetContentUpsert ==
    [][op'.name = "set_note_content" =>
        /\ get_note_content(notes', op'.title) = op'.content
        /\ \E i \in 1..Len(notes') : get_note_titles(notes')[i] = op'.title
        /\ SameExcept(notes, notes', op'.title)
        /\ Cardinality(Keys(notes')) = Len(notes')
        /\ dict_contains(notes, op'.title) => Len(notes') = Len(notes)]_vars

\* an update of a title that was a key before a later one was inserted
C8_Witness ==
    /\ op.name = "set_note_content"
    /\ op.content # <<>>
    /\ Len(notes) >= 2
    /\ notes[1].title = op.title
    /\ notes[1].content = op.content

\* an update that inserted its title as the last of several
C8_WitnessInsert ==
    /\ op.name = "set_note_content"
    /\ Len(notes) >= 2
    /\ notes[Len(notes)].title = op.title
    /\ op.title = TitleA1
    /\ ~dict_contains(notes, TitleA)

\* C9: delete_note never raises; it removes exactly the given key when it is
\* one and changes nothing otherwise, so that afterwards the title is no key,
\* its content reads empty and every other title is as before.
C9_DeleteLenient ==
    [][op'.name = "delete_note" =>
        /\ op'.outcome = "ok"
        /\ dict_contains(notes, op'.title) => Len(notes') = Len(notes) - 1
        /\ ~dict_contains(notes, op'.title) =>
              notes' = notes /\ get_note_titles(notes') = get_note_titles(notes)
        /\ \A i \in 1..Len(notes') : get_note_titles(notes')[i] # op'.title
        /\ get_note_content(notes', op'.title) = <<>>
        /\ SameExcept(notes, notes', op'.title)]_vars

\* "a (1)" was deleted from between "a" and "a (2)"
C9_Witness ==
    /\ op.name = "delete_note"
    /\ op.title = TitleA1
    /\ get_note_titles(notes) = <<TitleA, TitleA2>>

\* a deletion of a title that is no key of a store that holds notes
C9_WitnessAbsent ==
    /\ op.name = "delete_note"
    /\ op.title = TitleB
    /\ get_note_titles(notes) = <<TitleA, TitleA1, TitleA2>>

\* C10: get_note_content changes nothing, returns the empty text for a title
\* that is no key, and the stored content for one that is.
C10_ContentLenientReadOnly ==
    [][op'.name = "get_note_content" =>
        /\ op'.outcome = "ok"
        /\ notes' = notes
        /\ ~dict_contains(notes, op'.title) => op'.ret = <<>>
        /\ \A i \in 1..Len(notes) :
              notes[i].title = op'.title => op'.ret = notes[i].content]_vars

\* a lookup of a title that is no key of a store that holds notes
C10_Witness ==
    /\ op.name = "get_note_content"
    /\ notes # <<>>
    /\ ~dict_contains(notes, op.title)
    /\ op.ret = <<>>

(***************************************************************************)
(* Properties of the session.                                              *)
(***************************************************************************)
\* the same keys with the same contents
SameNotes(d, e) ==
    /\ Keys(d) = Keys(e)
    /\ \A t \in Keys(d) : dict_get(d, t, None) = dict_get(e, t, None)

\* what a new process would load from the file
Reloaded == load_notes(<<>>, file)

\* C3: after a Save As the session tracks the title add_new_note returned,
\* and the buffer is stored under that title.
C3_SaveAsTracksReturnedTitle ==
    [][(op'.name = "save_note_as" /\ op'.outcome = "ok") =>
        LET r == add_new_note(notes, op'.title)
        IN  /\ current_note' = r.ret
            /\ get_note_content(notes', r.ret) = strip(text)]_vars

\* C4: a Save As leaves every existing note as it was and adds one key, which
\* holds the trimmed buffer.
C4_SaveAsKeepsExistingNotes ==
    [][(op'.name = "save_note_as" /\ op'.outcome = "ok") =>
        /\ \A i \in 1..Len(notes) :
              dict_get(notes', notes[i].title, None) = notes[i].content
        /\ Len(notes') = Len(notes) + 1
        /\ \E t \in Keys(notes') \ Keys(notes) :
              /\ Keys(notes') = Keys(notes) \cup {t}
              /\ get_note_content(notes', t) = strip(text)]_vars

\* C5: a process started on a file that a persist wrote completely loads the
\* collection that was persisted: the same keys, each with the same content.
C5_PersistLoadRoundTrip ==
    (op.name = "__init__" /\ persisted.valid) =>
        /\ op.outcome = "ok"
        /\ SameNotes(notes, persisted.notes)

\* a restart on a file that holds two notes, one with quotes and a line break
C5_Witness ==
    /\ op.name = "__init__"
    /\ persisted.valid
    /\ Len(notes) >= 2
    /\ \E i \in 1..Len(notes) :
          \E j \in 1..Len(notes[i].content) : notes[i].content[j] \in {Quote, Newline}

\* C6: right after a save, Save As or confirmed delete that completed, the
\* file holds the collection in memory: a restart would load exactly it.
C6_FileEqualsMemoryAfterAction ==
    (op.name \in {"save_note", "save_note_as", "delete_note"} /\ op.outcome = "ok") =>
        /\ file.exists
        /\ ~Reloaded.raised
        /\ SameNotes(Reloaded.notes, notes)

\* a save of text onto one of two notes, completed
C6_Witness ==
    /\ op.name = "save_note"
    /\ op.outcome = "ok"
    /\ Len(notes) >= 2
    /\ Truthy(current_note)
    /\ get_note_content(notes, current_note) # <<>>

\* a confirmed delete that left a note behind, completed
C6_WitnessDelete ==
    /\ op.name = "delete_note"
    /\ op.outcome = "ok"
    /\ notes # <<>>

\* C7: a save with a note open stores the trimmed buffer under the open title
\* and changes no other title, before it writes the file; the file it writes
\* holds the trimmed text under that title.
C7_SaveStoresTrimmedBuffer ==
    [][(op'.name = "save_note" /\ op'.outcome # "rejected") =>
        /\ dict_contains(notes', current_note)
        /\ get_note_content(notes', current_note) = strip(text)
        /\ strip(text) = <<>> \/
              (~(Head(strip(text)) \in Whitespace)
               /\ ~(strip(text)[Len(strip(text))] \in Whitespace))
        /\ SameExcept(notes, notes', current_note)
        /\ op'.outcome = "ok" =>
              \E l \in {json_load(file'.data)} :
                  /\ file'.exists
                  /\ l.ok
                  /\ dict_get(l.val, current_note, None) = strip(text)]_vars

\* a completed save of a buffer that ends in white space, next to another note
C7_Witness ==
    /\ op.name = "save_note"
    /\ op.outcome = "ok"
    /\ text # strip(text)
    /\ strip(text) # <<>>
    /\ Len(notes) >= 2
    /\ Truthy(current_note)
    /\ get_note_content(notes, current_note) = strip(text)

(***************************************************************************)
(* Loading.                                                                *)
(***************************************************************************)
\* the mapping HandFile spells out
HandMapping == <<[title |-> NewNoteTitle, content |-> <<Quote, "x", Newline, "x">>]>>

\* C11 as claimed: load_notes returns an empty collection whenever the file is
\* missing, whatever the store held; with a well-formed file it installs and
\* returns the file's mapping.
C11_LoadEmptyWhenMissing ==
    [][op'.name = "load_notes" =>
        /\ ~file.exists => (notes' = <<>> /\ op'.titles = <<>>)
        /\ file = HandFile =>
              (notes' = HandMapping /\ op'.titles = <<NewNoteTitle>>)]_vars

\* C11, amended: with no file load_notes leaves the collection as it is and
\* returns it, which is the empty collection on a new store; with a
\* well-formed file it installs and returns the file's mapping.
C11_LoadKeepsMemoryWhenMissing ==
    [][op'.name = "load_notes" =>
        /\ ~file.exists =>
              /\ op'.outcome = "ok"
              /\ notes' = notes
              /\ op'.titles = get_note_titles(notes)
              /\ notes = <<>> => op'.titles = <<>>
        /\ file = HandFile =>
              /\ op'.outcome = "ok"
              /\ notes' = HandMapping
              /\ op'.titles = <<NewNoteTitle>>]_vars

\* a load without a file, on a store that holds a note
C11_Witness ==
    /\ op.name = "load_notes"
    /\ ~file.exists
    /\ op.titles # <<>>
    /\ notes # <<>>

\* a load of the hand-written file over a store that held something else
C11_WitnessFile ==
    /\ op.name = "load_notes"
    /\ file = HandFile
    /\ notes = HandMapping

\* C12: a malformed file at startup does not crash the process: the load is
\* reported as failed, the collection stays empty and the session runs.
C12_MalformedFileDoesNotCrash ==
    (op.name = "__init__" /\ file.exists /\ ~json_load(file.data).ok) =>
        /\ op.outcome = "raised"
        /\ notes = <<>>
        /\ phase = "running"

(***************************************************************************)
(* The file and the handlers.                                              *)
(***************************************************************************)
\* the handlers that call save_notes_to_file
Persisting == {"save_note", "save_note_as", "delete_note"}

C14_PersistFailureSurfaced ==
    [][(op'.name \in Persisting /\ op'.outcome # "rejected") =>
        /\ op'.outcome \in {"ok", "raised"}
        /\ op'.outcome = "ok" => (persisted'.valid /\ persisted'.notes = notes')
        /\ file' # save_notes_to_file(notes') => op'.outcome = "raised"
        /\ op'.outcome = "raised" => (~persisted'.valid /\ phase' = "running")]_vars

\* a save whose write failed: the store holds the text, the file is cut short
C14_Witness ==
    /\ op.name = "save_note"
    /\ op.outcome = "raised"
    /\ Reloaded.raised
    /\ Truthy(current_note)
    /\ get_note_content(notes, current_note) # <<>>

\* C16: selecting a note changes the current title and the buffer, which
\* becomes the stored content of the selected title, and leaves the
\* collection, the file and the list as they are.
C16_SelectChangesOnlyTitleAndBuffer ==
    [][op'.name \in {"load_selected_note", "key_return"} =>
        /\ notes' = notes
        /\ file' = file
        /\ notes_list' = notes_list
        /\ \E i \in 1..Len(notes_list) : current_note' = notes_list[i]
        /\ current_note' # current_note \/ op'.name = "load_selected_note" =>
              text' = get_note_content(notes, current_note')]_vars

\* a selection of a note with text, made while another note was open
C16_Witness ==
    /\ op.name = "load_selected_note"
    /\ Len(notes) >= 2
    /\ Truthy(current_note)
    /\ text # <<>>
    /\ text = get_note_content(notes, current_note)
    /\ \E i \in 1..Len(notes) : notes[i].content = <<>>

\* nothing the session shows or stores changes
NothingChanges ==
    UNCHANGED <<notes, file, notes_list, current_note, currentRow, text>>

\* C19: a save, Save As or delete without a current note, a Save As with an
\* empty or cancelled title, and a declined delete change nothing.
C19_RejectedActionsChangeNothing ==
    [][/\ (op'.name \in Persisting /\ ~Truthy(current_note)) =>
             (op'.outcome = "rejected" /\ NothingChanges)
       /\ op'.name = "save_note_as" =>
             \A ok \in BOOLEAN, raw \in DialogTexts, w \in WriteOutcomes :
                (save_note_as(ok, raw, w) /\ (~ok \/ strip(raw) = <<>>)) => NothingChanges
       /\ op'.name = "delete_note" =>
             \A w \in WriteOutcomes : app_delete_note(FALSE, w) => NothingChanges
       /\ op'.outcome = "rejected" => NothingChanges]_vars

\* a Save As turned down while a note with unsaved text was open
C19_Witness ==
    /\ op.name = "save_note_as"
    /\ op.outcome = "rejected"
    /\ Truthy(current_note)
    /\ text # <<>>
    /\ get_note_content(notes, current_note) # strip(text)

\* a delete asked for with no note current
C19_WitnessNoNote ==
    /\ op.name = "delete_note"
    /\ op.outcome = "rejected"
    /\ current_note = None
    /\ notes # <<>>

(***************************************************************************)
(* Order of the titles, and the probing loop.                              *)
(***************************************************************************)
\* the titles s without t
Without(s, t) ==
    LET Other(u) == u # t
    IN  SelectSeq(s, Other)

\* C15: get_note_titles returns the keys, each once, in insertion order: an
\* inserted title is last, set_note_content on an existing title moves
\* nothing, a deletion takes out its title only (so that a title added again
\* is last), and the order is the same after a write and a load.
C15_TitlesInInsertionOrder ==
    [][LET before == get_note_titles(notes)
           after == get_note_titles(notes')
           l == load_notes(<<>>, save_notes_to_file(notes))
       IN  /\ {after[i] : i \in 1..Len(after)} = Keys(notes')
           /\ Len(after) = Cardinality(Keys(notes'))
           /\ op'.name = "get_note_titles" =>
                 /\ op'.titles = before
                 /\ after = before
                 /\ ~l.raised
                 /\ get_note_titles(l.notes) = op'.titles
           /\ op'.name = "add_new_note" => after = Append(before, op'.ret)
           /\ op'.name = "set_note_content" =>
                 after = IF dict_contains(notes, op'.title)
                         THEN before
                         ELSE Append(before, op'.title)
           /\ op'.name = "delete_note" => after = Without(before, op'.title)]_vars

\* "a" and "a (1)" were added, "a" deleted, "b" added, and "a" added again
C15_Witness ==
    /\ op.name = "add_new_note"
    /\ op.ret = TitleA
    /\ get_note_titles(notes) = <<TitleA1, TitleB, TitleA>>

\* a content update of the first of three titles
C15_WitnessUpdate ==
    /\ op.name = "set_note_content"
    /\ op.content # <<>>
    /\ Len(notes) = 3
    /\ notes[1].title = op.title

\* C20: the loop of add_new_note ends, after forming at most as many numbered
\* candidates as the store has keys.
C20_ProbingTerminates ==
    [][op'.name = "add_new_note" =>
        LET r == add_new_note(notes, op'.title)
        IN  /\ notes' = r.notes
            /\ op'.ret = r.ret
            /\ r.probes <= Len(notes)
            /\ ~dict_contains(notes, op'.title) => r.probes = 0]_vars

\* "a (2)" was returned for "a": two candidates formed, with two keys before
C20_Witness ==
    /\ op.name = "add_new_note"
    /\ op.title = TitleA
    /\ op.ret = TitleA2
    /\ Len(notes) = 3
    /\ add_new_note(SubSeq(notes, 1, 2), TitleA).probes = 2

(***************************************************************************)
(* The list, the current note and the store.                               *)
(***************************************************************************)
\* C17: while the session runs the list shows the keys of the store, each
\* once.
C17_ListShowsStoreKeys ==
    phase = "running" =>
        /\ {notes_list[i] : i \in 1..Len(notes_list)} = Keys(notes)
        /\ Len(notes_list) = Len(notes)

\* C18: while the session runs the current note is None or a key of the
\* store.
C18_CurrentNoteIsKey ==
    phase = "running" => (current_note = None \/ dict_contains(notes, current_note))

====
